---- MODULE Spec2Model ----
(***************************************************************************)
(* Top Traders Bubblemap Tool: the 'Run Analysis' handler of               *)
(* streamlit_app.py and plot_trader_bubblemap of graph.py.                 *)
(*                                                                         *)
(* Numbers are binary floating point values.  Python's float is binary64   *)
(* (53 significant bits, round to nearest, ties to even); the model keeps  *)
(* the same arithmetic with FloatPrecision significant bits, every value   *)
(* being held as an integer count of units of 2^-FracBits.                 *)
(***************************************************************************)
EXTENDS Integers, Sequences, FiniteSets, TLC

\* ---------------------------------------------------------------- bounds
MaxRows == 2
FloatPrecision == 5

FracBits == FloatPrecision + 3
Unit == 2 ^ FracBits

\* ------------------------------------------------- floating point numbers
\* n/d rounded to the nearest integer, ties to the even one
RoundHalfEven(n, d) ==
    LET q == n \div d
        r == n % d
    IN  IF 2 * r < d THEN q
        ELSE IF 2 * r > d THEN q + 1
        ELSE IF q % 2 = 0 THEN q ELSE q + 1

RECURSIVE UlpOf(_, _, _)
\* the spacing (in units) of the floats around n/d units: the least power of
\* two s with n/d < s * 2^FloatPrecision
UlpOf(n, d, s) ==
    IF n < d * s * (2 ^ FloatPrecision) THEN s ELSE UlpOf(n, d, 2 * s)

\* the float nearest to the rational n/d (in units), n >= 0, d > 0
Fl(n, d) ==
    IF n = 0 THEN 0
    ELSE LET s == UlpOf(n, d, 1) IN RoundHalfEven(n, d * s) * s

FAdd(a, b) == Fl(a + b, 1)
FSub(a, b) == IF a >= b THEN Fl(a - b, 1) ELSE 0 - Fl(b - a, 1)
FMul(a, b) == Fl(a * b, Unit)
FDiv(a, b) == Fl(a * Unit, b)

\* ------------------------------------------------------- Python values
Num(n) == [k |-> "num", n |-> n, s |-> <<>>]
Str(s) == [k |-> "str", n |-> 0, s |-> s]
\* the outcome of an operation that raises (TypeError, ValueError)
Raised == [k |-> "err", n |-> 0, s |-> <<>>]
\* a missing value of a numeric Series
NaN == [k |-> "nan", n |-> 0, s |-> <<>>]

\* a + b of two Python objects
PyAdd(a, b) ==
    IF a.k = "num" /\ b.k = "num" THEN Num(FAdd(a.n, b.n))
    ELSE IF a.k = "str" /\ b.k = "str" THEN Str(a.s \o b.s)
    ELSE IF a.k = "nan" \/ b.k = "nan" THEN
         IF a.k \in {"num", "nan"} /\ b.k \in {"num", "nan"} THEN NaN ELSE Raised
    ELSE Raised

\* a - b of two Python objects
PySub(a, b) ==
    IF a.k = "num" /\ b.k = "num" THEN Num(FSub(a.n, b.n))
    ELSE IF a.k \in {"num", "nan"} /\ b.k \in {"num", "nan"} THEN NaN
    ELSE Raised

\* ------------------------------------------------------------- strings
Digits == {"0", "1", "2", "3", "4", "5", "6", "7", "8", "9"}

DigitVal(c) ==
    CASE c = "0" -> 0 [] c = "1" -> 1 [] c = "2" -> 2 [] c = "3" -> 3
      [] c = "4" -> 4 [] c = "5" -> 5 [] c = "6" -> 6 [] c = "7" -> 7
      [] c = "8" -> 8 [] c = "9" -> 9

DigitChar(d) == <<"0", "1", "2", "3", "4", "5", "6", "7", "8", "9">>[d + 1]

RECURSIVE DigitsOf(_)
\* the decimal digits of a natural number
DigitsOf(i) == IF i < 10 THEN <<DigitChar(i)>> ELSE DigitsOf(i \div 10) \o <<DigitChar(i % 10)>>

\* str(x) of a row value: a string is itself, a float prints its integer part,
\* a point and its fraction (the values of the rows are whole numbers)
PyStr(v) ==
    IF v.k = "str" THEN v.s
    ELSE DigitsOf(v.n \div Unit) \o <<".">> \o DigitsOf(((v.n % Unit) * 10) \div Unit)

\* s.replace(',', '')
StripCommas(s) == SelectSeq(s, LAMBDA c : c # ",")

RECURSIVE DecimalOf(_, _, _)
\* the digits of s from position i on, read as a natural number, after acc
DecimalOf(s, i, acc) ==
    IF i > Len(s) THEN acc
    ELSE DecimalOf(s, i + 1, IF s[i] = "." THEN acc ELSE 10 * acc + DigitVal(s[i]))

\* float(s) for the strings of digits with at most one point; any other
\* string raises ValueError
PyFloat(s) ==
    LET points == {i \in 1..Len(s) : s[i] = "."}
        digits == {i \in 1..Len(s) : s[i] \in Digits}
    IN  IF digits = {} \/ Cardinality(points) > 1
           \/ Cardinality(points) + Cardinality(digits) # Len(s)
        THEN Raised
        ELSE LET fraction == IF points = {} THEN 0
                             ELSE Len(s) - (CHOOSE i \in points : TRUE)
             IN  Num(Fl(DecimalOf(s, 1, 0) * Unit, 10 ^ fraction))

\* ---------------------------------------------------------------- rows
Addresses == {"0xA", "0xB", "0xC"}
None == "None"

\* whole dollar amounts, a non-numeric string and a comma-formatted number
UsdValues == {Num(3 * Unit), Num(7 * Unit),
              Str(<<"N", "/", "A">>), Str(<<"1", ",", "5", "3", "6">>)}

Rows == [address : Addresses \cup {None},
         target_address : Addresses \cup {None},
         total_usd_traded : UsdValues]

\* the result sets of the query: node rows have no target_address
RowType(row) == IF row.target_address = None THEN "node" ELSE "edge"

Frames == UNION {[1..n -> Rows] : n \in 0..MaxRows}

\* dropna on the address column alone
DropnaAddressOnly(frame) == SelectSeq(frame, LAMBDA row : row.address # None)

\* df.dropna(subset=['address', 'target_address'])
Dropna(frame) == SelectSeq(frame, LAMBDA row : row.address # None /\ row.target_address # None)

RECURSIVE SumFrom(_, _, _)
SumFrom(vals, i, acc) ==
    IF i > Len(vals) THEN acc ELSE SumFrom(vals, i + 1, PyAdd(acc, vals[i]))

\* df.groupby(col)['total_usd_traded'].sum(): one entry per key of the column,
\* the values of its rows added in row order
GroupBySum(frame, col) ==
    [key \in {frame[i][col] : i \in 1..Len(frame)} |->
        LET group == SelectSeq(frame, LAMBDA row : row[col] = key)
            vals == [i \in 1..Len(group) |-> group[i].total_usd_traded]
        IN  SumFrom(vals, 2, vals[1])]

\* a.add(b) without fill_value: a key of one side only gives NaN
SeriesAddNoFill(a, b, fill) ==
    [key \in DOMAIN a \cup DOMAIN b |->
        PyAdd(IF key \in DOMAIN a THEN a[key] ELSE NaN,
              IF key \in DOMAIN b THEN b[key] ELSE NaN)]

\* a.add(b, fill_value=fill): aligned on the union of the keys, the missing
\* side of a key replaced by fill
SeriesAdd(a, b, fill) ==
    [key \in DOMAIN a \cup DOMAIN b |->
        PyAdd(IF key \in DOMAIN a THEN a[key] ELSE fill,
              IF key \in DOMAIN b THEN b[key] ELSE fill)]

\* float(str(row['total_usd_traded']).replace(',', '')), 1 when that raises
EdgeWeight(row) ==
    LET parsed == PyFloat(StripCommas(PyStr(row.total_usd_traded)))
    IN  IF parsed = Raised THEN Num(Unit) ELSE parsed

\* --------------------------------------------------------------- graph
RECURSIVE UniqueOf(_, _, _)
\* the values of vals in the order of their first appearance
UniqueOf(vals, i, acc) ==
    IF i > Len(vals) THEN acc
    ELSE UniqueOf(vals, i + 1,
                  IF \E j \in 1..Len(acc) : acc[j] = vals[i] THEN acc
                  ELSE Append(acc, vals[i]))

\* the distinct values of the address column alone
UniqueNodesAddressOnly(frame) ==
    SelectSeq(UniqueOf([i \in 1..Len(frame) |-> frame[i].address], 1, <<>>),
              LAMBDA node : node # None)

\* pd.unique(df[['address', 'target_address']].values.ravel()), NaNs removed
UniqueNodes(frame) ==
    LET ravel == [i \in 1..(2 * Len(frame)) |->
                    IF i % 2 = 1 THEN frame[(i + 1) \div 2].address
                    ELSE frame[i \div 2].target_address]
    IN  SelectSeq(UniqueOf(ravel, 1, <<>>), LAMBDA node : node # None)

\* G.add_node(node): the nodes of G in insertion order
AddNode(Gnodes, node) ==
    IF \E j \in 1..Len(Gnodes) : Gnodes[j] = node THEN Gnodes ELSE Append(Gnodes, node)

RECURSIVE AddNodes(_, _, _)
AddNodes(Gnodes, list, i) ==
    IF i > Len(list) THEN Gnodes ELSE AddNodes(AddNode(Gnodes, list[i]), list, i + 1)

\* a duplicate edge adds its weight to the edge already there
AddEdgeAccumulate(Gedges, u, v, weight) ==
    [e \in DOMAIN Gedges \cup {{u, v}} |->
        IF e # {u, v} THEN Gedges[e]
        ELSE IF e \in DOMAIN Gedges THEN PyAdd(Gedges[e], weight) ELSE weight]

\* an edge from an address to itself is left out of the graph
AddEdgeNoSelfLoop(Gedges, u, v, weight) ==
    IF u = v THEN Gedges
    ELSE [e \in DOMAIN Gedges \cup {{u, v}} |-> IF e = {u, v} THEN weight ELSE Gedges[e]]

\* G.add_edge(u, v, weight=weight) of an undirected nx.Graph: the edge is keyed
\* by the unordered pair, an edge already there has its weight replaced
AddEdge(Gedges, u, v, weight) ==
    [e \in DOMAIN Gedges \cup {{u, v}} |-> IF e = {u, v} THEN weight ELSE Gedges[e]]

\* total_volume.get(node, 0)
VolumeOf(volume, node) == IF node \in DOMAIN volume THEN volume[node] ELSE Num(0)

\* -------------------------------------------------------- visual encoding
min_size == 10
max_size == 50
HighColor == "#FF4500"
LowColor == "#1E90FF"
DefaultSize == 10

SeqMin(vals) == CHOOSE v \in {vals[i] : i \in 1..Len(vals)} : \A i \in 1..Len(vals) : v <= vals[i]
SeqMax(vals) == CHOOSE v \in {vals[i] : i \in 1..Len(vals)} : \A i \in 1..Len(vals) : v >= vals[i]

\* the k-th smallest of vals
KthSmallest(vals, k) ==
    CHOOSE v \in {vals[i] : i \in 1..Len(vals)} :
        /\ Cardinality({i \in 1..Len(vals) : vals[i] < v}) < k
        /\ Cardinality({i \in 1..Len(vals) : vals[i] <= v}) >= k

\* pd.Series(vals).median(): the middle value, or the mean of the two middle ones
Median(vals) ==
    LET n == Len(vals)
    IN  IF n % 2 = 1 THEN KthSmallest(vals, (n + 1) \div 2)
        ELSE FDiv(FAdd(KthSmallest(vals, n \div 2), KthSmallest(vals, n \div 2 + 1)), 2 * Unit)

\* the range without its fallback: 0 when all volumes are equal
VolumeRangeNoFallback(min_volume, max_volume) == FSub(max_volume, min_volume)

\* max_volume - min_volume if max_volume != min_volume else 1
VolumeRange(min_volume, max_volume) ==
    IF max_volume # min_volume THEN FSub(max_volume, min_volume) ELSE Unit

\* the test taken as always true
HasVolumesAlways(vols) == TRUE

\* if volumes:
HasVolumes(vols) == Len(vols) > 0

\* min_size + (max_size - min_size) * (volume - min_volume) / volume_range
SizeOf(volume, min_volume, volume_range) ==
    FAdd(min_size * Unit,
         FDiv(FMul((max_size - min_size) * Unit, FSub(volume, min_volume)), volume_range))

\* the colour of a node only when its volume is above the threshold
ColorOfStrict(volume, thresh) == IF volume > thresh THEN HighColor ELSE LowColor

\* "#FF4500" if volume >= threshold else "#1E90FF"
ColorOf(volume, thresh) == IF volume >= thresh THEN HighColor ELSE LowColor

\* ---------------------------------------------------------------- state
VARIABLES
    pc,            \* the statement the program is at
    exc,           \* the exception raised, None when there is none
    inputs,        \* the widgets' values read by the 'Run Analysis' handler
    query,         \* the query built from them
    ui,            \* what the handler has shown, in order
    queryCalls,    \* calls of flipside.query in this run of the handler
    plotCalls,     \* calls of plot_trader_bubblemap in this run of the handler
    df,            \* the DataFrame passed to plot_trader_bubblemap
    retained,      \* its local df, after dropna
    total_volume,  \* address -> aggregated volume
    nodes,         \* the list of distinct addresses
    Gnodes,        \* the nodes of G, in insertion order
    Gedges,        \* the edges of G: unordered pair -> weight
    idx,           \* the row the edge loop is at
    sizes,         \* per node of G
    colors,        \* per node of G
    threshold,     \* the colour threshold
    net_nodes,     \* the nodes of the Pyvis network
    net_edges,     \* the edges of the Pyvis network
    html_path      \* the path plot_trader_bubblemap returns

vars == <<pc, exc, inputs, query, ui, queryCalls, plotCalls, df, retained, total_volume,
          nodes, Gnodes, Gedges, idx, sizes, colors, threshold, net_nodes,
          net_edges, html_path>>

plotVars == <<retained, total_volume, nodes, Gnodes, Gedges, idx, sizes, colors,
              threshold, net_nodes, net_edges, html_path>>
appVars == <<inputs, query, ui, queryCalls, plotCalls>>

NoInputs == [chain |-> "", contract_address |-> "", start_date |-> 0, end_date |-> 0,
             min_usd |-> 0, max_usd |-> 0]
NoQuery == [template |-> "", args |-> NoInputs]

\* the locals of plot_trader_bubblemap before it runs
PlotBlank ==
    /\ retained = <<>>
    /\ total_volume = <<>>
    /\ nodes = <<>>
    /\ Gnodes = <<>>
    /\ Gedges = <<>>
    /\ idx = 1
    /\ sizes = <<>>
    /\ colors = <<>>
    /\ threshold = NaN
    /\ net_nodes = <<>>
    /\ net_edges = {}
    /\ html_path = None

\* ------------------------------------------------- plot_trader_bubblemap
PlotDropna ==
    /\ pc = "dropna"
    /\ retained' = Dropna(df)
    /\ pc' = "aggregate"
    /\ UNCHANGED <<exc, df, total_volume, nodes, Gnodes, Gedges, idx, sizes, colors,
                   threshold, net_nodes, net_edges, html_path>>
    /\ UNCHANGED appVars

PlotAggregate ==
    /\ pc = "aggregate"
    /\ LET volume_from == GroupBySum(retained, "address")
           volume_to == GroupBySum(retained, "target_address")
           added == SeriesAdd(volume_from, volume_to, Num(0))
       IN  IF \E key \in DOMAIN added : added[key] = Raised
           THEN \* str + float, or str + the fill value 0
                /\ pc' = "raised"
                /\ exc' = "TypeError"
                /\ UNCHANGED total_volume
           ELSE /\ pc' = "nodes"
                /\ total_volume' = added
                /\ UNCHANGED exc
    /\ UNCHANGED <<df, retained, nodes, Gnodes, Gedges, idx, sizes, colors,
                   threshold, net_nodes, net_edges, html_path>>
    /\ UNCHANGED appVars

PlotAddNodes ==
    /\ pc = "nodes"
    /\ nodes' = UniqueNodes(retained)
    /\ Gnodes' = AddNodes(<<>>, nodes', 1)
    /\ Gedges' = <<>>
    /\ idx' = 1
    /\ pc' = "edges"
    /\ UNCHANGED <<exc, df, retained, total_volume, sizes, colors, threshold, net_nodes,
                   net_edges, html_path>>
    /\ UNCHANGED appVars

PlotAddEdge ==
    /\ pc = "edges"
    /\ idx <= Len(retained)
    /\ LET row == retained[idx]
           from_addr == row.address
           to_addr == row.target_address
       IN  /\ Gnodes' = AddNode(AddNode(Gnodes, from_addr), to_addr)
           /\ Gedges' = AddEdge(Gedges, from_addr, to_addr, EdgeWeight(row))
    /\ idx' = idx + 1
    /\ pc' = "edges"
    /\ UNCHANGED <<exc, df, retained, total_volume, nodes, sizes, colors, threshold,
                   net_nodes, net_edges, html_path>>
    /\ UNCHANGED appVars

PlotEncode ==
    /\ pc = "edges"
    /\ idx > Len(retained)
    /\ LET vols == [i \in 1..Len(Gnodes) |-> VolumeOf(total_volume, Gnodes[i])]
           volumes == [i \in 1..Len(vols) |-> vols[i].n]
           Raise(e) == /\ pc' = "raised"
                       /\ exc' = e
                       /\ UNCHANGED <<sizes, colors, threshold>>
       IN  IF HasVolumes(vols)
           THEN IF Len(vols) = 0
                THEN Raise("ValueError")           \* min() of an empty list
                ELSE IF \E i \in 1..Len(vols) : vols[i].k # "num"
                THEN Raise("TypeError")            \* str < float, str - str
                ELSE IF VolumeRange(SeqMin(volumes), SeqMax(volumes)) = 0
                THEN Raise("ZeroDivisionError")    \* float / 0
                ELSE LET min_volume == SeqMin(volumes)
                         max_volume == SeqMax(volumes)
                         volume_range == VolumeRange(min_volume, max_volume)
                     IN  /\ sizes' = [i \in 1..Len(volumes) |->
                                        SizeOf(volumes[i], min_volume, volume_range)]
                         /\ threshold' = Num(Median(volumes))
                         /\ colors' = [i \in 1..Len(volumes) |->
                                        ColorOf(volumes[i], threshold'.n)]
                         /\ pc' = "render"
                         /\ UNCHANGED exc
           ELSE /\ sizes' = [i \in 1..Len(Gnodes) |-> DefaultSize * Unit]
                /\ colors' = [i \in 1..Len(Gnodes) |-> LowColor]
                /\ UNCHANGED <<threshold, exc>>
                /\ pc' = "render"
    /\ UNCHANGED <<df, retained, total_volume, nodes, Gnodes, Gedges, idx, net_nodes,
                   net_edges, html_path>>
    /\ UNCHANGED appVars

PlotRender ==
    /\ pc = "render"
    /\ net_nodes' = [i \in 1..Len(Gnodes) |->
                        [id |-> Gnodes[i], size |-> sizes[i], color |-> colors[i]]]
    /\ net_edges' = {[ends |-> e, value |-> Gedges[e]] : e \in DOMAIN Gedges}
    /\ html_path' = "bubblemap.html"
    /\ pc' = "returned"
    /\ UNCHANGED <<exc, df, retained, total_volume, nodes, Gnodes, Gedges, idx, sizes,
                   colors, threshold>>
    /\ UNCHANGED appVars

\* plot_trader_bubblemap called on any DataFrame
Init ==
    /\ pc = "dropna"
    /\ exc = None
    /\ df \in Frames
    /\ inputs = NoInputs
    /\ query = NoQuery
    /\ ui = <<>>
    /\ queryCalls = 0
    /\ plotCalls = 1
    /\ PlotBlank

Next ==
    \/ PlotDropna
    \/ PlotAggregate
    \/ PlotAddNodes
    \/ PlotAddEdge
    \/ PlotEncode
    \/ PlotRender

Spec == Init /\ [][Next]_vars

\* ------------------------------------------------ the Run Analysis handler
MaxDay == 3
Today == MaxDay - 1
Days == 1..MaxDay
Chains == {"Solana", "Ethereum"}
ContractAddresses == {"", "0xT"}
UsdAmounts == {1, 2}

\* chain.lower()
Lower(chain) == IF chain = "Solana" THEN "solana" ELSE "ethereum"

\* where control goes when flipside.query raises: it is retried
AfterQueryErrorRetry == "query"

\* where control goes when flipside.query raises: the except clause
AfterQueryError == "raised"

\* the handler with the end date tested against today before the order of the
\* two dates
RunAnalysisFutureFirst ==
    /\ pc = "idle"
    /\ \E chain \in Chains, contract_address \in ContractAddresses,
          start_date \in Days, end_date \in Days, min_usd \in UsdAmounts :
       \E max_usd \in {u \in UsdAmounts : u >= min_usd} :
          /\ inputs' = [chain |-> chain, contract_address |-> contract_address,
                        start_date |-> start_date, end_date |-> end_date,
                        min_usd |-> min_usd, max_usd |-> max_usd]
          /\ IF contract_address = ""
             THEN /\ ui' = Append(ui, "error: enter a contract address")
                  /\ pc' = "done"
                  /\ UNCHANGED query
             ELSE IF end_date > Today
             THEN /\ ui' = Append(ui, "error: end date in the future")
                  /\ pc' = "done"
                  /\ UNCHANGED query
             ELSE IF start_date >= end_date
             THEN /\ ui' = Append(ui, "error: start date must be before end date")
                  /\ pc' = "done"
                  /\ UNCHANGED query
             ELSE IF min_usd > max_usd
             THEN /\ ui' = Append(ui, "error: minimum above maximum")
                  /\ pc' = "done"
                  /\ UNCHANGED query
             ELSE /\ query' = [template |-> IF Lower(chain) = "solana" THEN "solana"
                                            ELSE "evm",
                               args |-> inputs']
                  /\ ui' = Append(ui, "info: this might take a few seconds")
                  /\ pc' = "query"
    /\ UNCHANGED <<exc, queryCalls, plotCalls, df>>
    /\ UNCHANGED plotVars

\* the 'Run Analysis' button: the input checks, then the query text
RunAnalysis ==
    /\ pc = "idle"
    /\ \E chain \in Chains, contract_address \in ContractAddresses,
          start_date \in Days, end_date \in Days, min_usd \in UsdAmounts :
       \E max_usd \in {u \in UsdAmounts : u >= min_usd} :
          /\ inputs' = [chain |-> chain, contract_address |-> contract_address,
                        start_date |-> start_date, end_date |-> end_date,
                        min_usd |-> min_usd, max_usd |-> max_usd]
          /\ IF contract_address = ""
             THEN /\ ui' = Append(ui, "error: enter a contract address")
                  /\ pc' = "done"
                  /\ UNCHANGED query
             ELSE IF start_date >= end_date
             THEN /\ ui' = Append(ui, "error: start date must be before end date")
                  /\ pc' = "done"
                  /\ UNCHANGED query
             ELSE IF end_date > Today
             THEN /\ ui' = Append(ui, "error: end date in the future")
                  /\ pc' = "done"
                  /\ UNCHANGED query
             ELSE IF min_usd > max_usd
             THEN /\ ui' = Append(ui, "error: minimum above maximum")
                  /\ pc' = "done"
                  /\ UNCHANGED query
             ELSE /\ query' = [template |-> IF Lower(chain) = "solana" THEN "solana"
                                            ELSE "evm",
                               args |-> inputs']
                  /\ ui' = Append(ui, "info: this might take a few seconds")
                  /\ pc' = "query"
    /\ UNCHANGED <<exc, queryCalls, plotCalls, df>>
    /\ UNCHANGED plotVars

\* flipside.query(query) raises.  Neither the query nor the widgets' values are
\* read again in this run: from the call on the model holds them blank
QueryRaises ==
    /\ pc = "query"
    /\ queryCalls' = queryCalls + 1
    /\ exc' = "APIError"
    /\ pc' = AfterQueryError
    /\ inputs' = NoInputs
    /\ query' = NoQuery
    /\ UNCHANGED <<ui, plotCalls, df>>
    /\ UNCHANGED plotVars

\* flipside.query(query) returns: the frame of its records is shown and plotted
QueryReturns ==
    /\ pc = "query"
    /\ queryCalls' = queryCalls + 1
    /\ \E records \in Frames :
          /\ df' = records
          /\ IF Len(records) = 0
             THEN /\ ui' = Append(ui, "warning: no data found")
                  /\ pc' = "done"
                  /\ UNCHANGED plotCalls
             ELSE /\ ui' = ui \o <<"subheader: connections", "dataframe",
                                   "subheader: bubblemap">>
                  /\ plotCalls' = plotCalls + 1
                  /\ pc' = "dropna"
    /\ inputs' = NoInputs
    /\ query' = NoQuery
    /\ UNCHANGED exc
    /\ UNCHANGED plotVars

\* except Exception as e: st.error(...)
CatchException ==
    /\ pc = "raised"
    /\ ui' = Append(ui, "error: running query or connecting to API")
    /\ pc' = "done"
    /\ UNCHANGED <<exc, inputs, query, queryCalls, plotCalls, df>>
    /\ UNCHANGED plotVars

\* the file at html_path is read and shown
ShowHtml ==
    /\ pc = "returned"
    /\ ui' = Append(ui, "html")
    /\ pc' = "done"
    /\ UNCHANGED <<exc, inputs, query, queryCalls, plotCalls, df>>
    /\ UNCHANGED plotVars

\* the script before 'Run Analysis' is clicked
AppInit ==
    /\ pc = "idle"
    /\ exc = None
    /\ df = <<>>
    /\ inputs = NoInputs
    /\ query = NoQuery
    /\ ui = <<>>
    /\ queryCalls = 0
    /\ plotCalls = 0
    /\ PlotBlank

\* the next run of the script starts afresh
Rerun ==
    /\ pc = "done"
    /\ pc' = "idle"
    /\ exc' = None
    /\ df' = <<>>
    /\ inputs' = NoInputs
    /\ query' = NoQuery
    /\ ui' = <<>>
    /\ queryCalls' = 0
    /\ plotCalls' = 0
    /\ retained' = <<>>
    /\ total_volume' = <<>>
    /\ nodes' = <<>>
    /\ Gnodes' = <<>>
    /\ Gedges' = <<>>
    /\ idx' = 1
    /\ sizes' = <<>>
    /\ colors' = <<>>
    /\ threshold' = NaN
    /\ net_nodes' = <<>>
    /\ net_edges' = {}
    /\ html_path' = None

AppNext ==
    \/ RunAnalysis
    \/ QueryRaises
    \/ QueryReturns
    \/ PlotDropna
    \/ PlotAggregate
    \/ PlotAddNodes
    \/ PlotAddEdge
    \/ PlotEncode
    \/ PlotRender
    \/ CatchException
    \/ ShowHtml
    \/ Rerun

AppSpec == AppInit /\ [][AppNext]_vars

\* ------------------------------------------------------------ properties
Range(seq) == {seq[i] : i \in 1..Len(seq)}

RetainedAddresses ==
    {retained[i].address : i \in 1..Len(retained)}
        \cup {retained[i].target_address : i \in 1..Len(retained)}

\* total_volume has been computed
Aggregated == pc \in {"nodes", "edges", "render", "returned"}
\* the edge loop has started / has ended
GraphStarted == pc \in {"edges", "render", "returned"}
Encoded == pc \in {"render", "returned"}

\* the volume of the i-th node of G
Vol(i) == VolumeOf(total_volume, Gnodes[i]).n

RECURSIVE SumWhere(_, _, _, _)
\* the values of the retained rows whose column col holds address, added up
SumWhere(col, address, i, acc) ==
    IF i > Len(retained) THEN acc
    ELSE SumWhere(col, address, i + 1,
                  IF retained[i][col] = address
                  THEN FAdd(acc, retained[i].total_usd_traded.n) ELSE acc)

\* the retained rows that name address have numeric values
NumericFor(address) ==
    \A i \in 1..Len(retained) :
        address \in {retained[i].address, retained[i].target_address}
            => retained[i].total_usd_traded.k = "num"

\* C1: the aggregated volume of every address of a retained row is the sum of
\* total_usd_traded over the retained rows where it is the address plus the sum
\* over the retained rows where it is the target_address
C1_VolumeSumsBothRoles ==
    Aggregated =>
        \A a \in RetainedAddresses :
            /\ a \in DOMAIN total_volume
            /\ NumericFor(a) =>
                 total_volume[a] = Num(FAdd(SumWhere("address", a, 1, 0),
                                            SumWhere("target_address", a, 1, 0)))

\* rows 0xA->0xB of 3 and 0xB->0xC of 7 give the volumes 3, 10 and 7
C1_Witness ==
    /\ pc = "returned"
    /\ Len(retained) = 2
    /\ retained[1].target_address = retained[2].address
    /\ total_volume = [a \in {"0xA", "0xB", "0xC"} |->
                          IF a = "0xA" THEN Num(3 * Unit)
                          ELSE IF a = "0xB" THEN Num(10 * Unit) ELSE Num(7 * Unit)]

\* C2: once the graph is built every address of a retained row is a node, and
\* both ends of every edge are nodes that were added from the retained rows
C2_NoOrphanEdges ==
    GraphStarted =>
        /\ RetainedAddresses \subseteq Range(Gnodes)
        /\ Range(nodes) = RetainedAddresses
        /\ \A e \in DOMAIN Gedges : e \subseteq Range(nodes) /\ e \subseteq Range(Gnodes)

C2_Witness ==
    /\ pc = "returned"
    /\ Len(Gnodes) = 3
    /\ Cardinality(DOMAIN Gedges) = 2

\* C3: when the volumes are not all equal, size is non-decreasing in volume,
\* every node of minimum volume has size 10 and every node of maximum volume
\* has size 50
C3_SizeScale ==
    (Encoded /\ \E i, j \in 1..Len(Gnodes) : Vol(i) # Vol(j)) =>
        /\ \A u, v \in 1..Len(Gnodes) : Vol(u) <= Vol(v) => sizes[u] <= sizes[v]
        /\ \A u \in 1..Len(Gnodes) :
              (\A v \in 1..Len(Gnodes) : Vol(u) <= Vol(v)) => sizes[u] = min_size * Unit
        /\ \A u \in 1..Len(Gnodes) :
              (\A v \in 1..Len(Gnodes) : Vol(u) >= Vol(v)) => sizes[u] = max_size * Unit

\* C4: when there is a node and all nodes have the same volume, the division
\* is by 1, not by 0, and every node has size 10
C4_EqualVolumesSize10 ==
    /\ exc # "ZeroDivisionError"
    /\ (Encoded /\ Len(Gnodes) > 0 /\ \A i, j \in 1..Len(Gnodes) : Vol(i) = Vol(j)) =>
          \A i \in 1..Len(Gnodes) : sizes[i] = 10 * Unit

C4_Witness ==
    /\ pc = "returned"
    /\ Len(Gnodes) = 2
    /\ Vol(1) = Vol(2)
    /\ Vol(1) > 0
    /\ sizes = <<10 * Unit, 10 * Unit>>

\* C5: the colour threshold is the median of the nodes' volumes; a node at or
\* above it is #FF4500, a node below it is #1E90FF
C5_MedianThreshold ==
    (Encoded /\ Len(Gnodes) > 0) =>
        LET n == Len(Gnodes)
            t == threshold.n
        IN  /\ threshold.k = "num"
            /\ 2 * Cardinality({i \in 1..n : Vol(i) <= t}) >= n
            /\ 2 * Cardinality({i \in 1..n : Vol(i) >= t}) >= n
            /\ \A i \in 1..n : /\ Vol(i) >= t => colors[i] = "#FF4500"
                               /\ Vol(i) < t => colors[i] = "#1E90FF"

\* a node whose volume is the median is #FF4500 while another is #1E90FF
C5_Witness ==
    /\ pc = "returned"
    /\ \E i, j \in 1..Len(Gnodes) :
          /\ Vol(i) = threshold.n
          /\ colors[i] = "#FF4500"
          /\ colors[j] = "#1E90FF"

\* C6: with no node volume the function does not raise and every node has the
\* default size 10 and the default colour #1E90FF
C6_EmptyVolumesDefaults ==
    /\ (pc # "dropna" /\ Len(retained) = 0) => exc = None
    /\ (Encoded /\ Len(Gnodes) = 0) =>
          /\ sizes = [i \in 1..Len(Gnodes) |-> 10 * Unit]
          /\ colors = [i \in 1..Len(Gnodes) |-> "#1E90FF"]
          /\ threshold = NaN

C6_Witness ==
    /\ pc = "returned"
    /\ Len(df) > 0
    /\ Len(Gnodes) = 0
    /\ net_nodes = <<>>
    /\ html_path = "bubblemap.html"

OnlyNodeRows == \A i \in 1..Len(df) : RowType(df[i]) = "node"

PairOf(i) == {retained[i].address, retained[i].target_address}

NotANumber == <<"N", "/", "A">>
CommaNumber == <<"1", ",", "5", "3", "6">>

\* C8: a retained row whose total_usd_traded is not a number does not make the
\* function raise: its edge has weight 1, and the edge of a comma-formatted
\* number has that number as weight
C8_UnparsableDoesNotRaise ==
    (pc # "dropna" /\ \E i \in 1..Len(retained) : retained[i].total_usd_traded.k = "str") =>
        /\ exc = None
        /\ pc # "raised"
        /\ GraphStarted =>
              \A i \in 1..(idx - 1) :
                  (\A j \in (i + 1)..(idx - 1) : PairOf(j) # PairOf(i)) =>
                      /\ retained[i].total_usd_traded = Str(NotANumber)
                            => Gedges[PairOf(i)] = Num(1 * Unit)
                      /\ retained[i].total_usd_traded = Str(CommaNumber)
                            => Gedges[PairOf(i)] = Num(1536 * Unit)

\* C9: flipside.query is called at most once; when it raises, the error is
\* shown, plot_trader_bubblemap is not called, nothing is rendered and the
\* action ends
C9_QueryOnceNoPlotOnFailure ==
    /\ queryCalls <= 1
    /\ exc = "APIError" =>
          /\ queryCalls = 1
          /\ plotCalls = 0
          /\ pc \in {"raised", "done"}
          /\ net_nodes = <<>> /\ net_edges = {} /\ html_path = None
          /\ \A i \in 1..Len(ui) : ui[i] # "html"
          /\ pc = "done" => ui[Len(ui)] = "error: running query or connecting to API"

C9_Witness ==
    /\ pc = "done"
    /\ exc = "APIError"
    /\ queryCalls = 1
    /\ ui = <<"info: this might take a few seconds",
              "error: running query or connecting to API">>

\* C10: the graph has one edge per unordered pair of the rows gone through,
\* and its weight is that of the last such row
C10_LastDuplicateWins ==
    GraphStarted =>
        /\ DOMAIN Gedges = {PairOf(i) : i \in 1..(idx - 1)}
        /\ \A i \in 1..(idx - 1) :
              (\A j \in (i + 1)..(idx - 1) : PairOf(j) # PairOf(i)) =>
                  Gedges[PairOf(i)] = EdgeWeight(retained[i])

\* two rows of opposite directions between one pair: the second weight stays
C10_Witness ==
    /\ pc = "returned"
    /\ Len(retained) = 2
    /\ retained[1].address = retained[2].target_address
    /\ retained[1].target_address = retained[2].address
    /\ retained[1].address # retained[1].target_address
    /\ retained[1].total_usd_traded = Num(7 * Unit)
    /\ retained[2].total_usd_traded = Num(3 * Unit)
    /\ Cardinality(DOMAIN Gedges) = 1
    /\ Gedges[PairOf(2)] = Num(3 * Unit)

\* the rows gone through by the edge loop whose target is their own address
SelfLoopRows == {i \in 1..(idx - 1) : retained[i].target_address = retained[i].address}

\* the last row gone through that is a self-loop on the address of row i
LastSelfLoopOn(i) ==
    CHOOSE j \in SelfLoopRows :
        /\ retained[j].address = retained[i].address
        /\ \A k \in SelfLoopRows : retained[k].address = retained[i].address => k <= j

\* the graph has the address as a node and a self-loop edge on it of the given
\* weight, and the rendered network has that node and that edge
SelfLoopKept(a, weight) ==
    /\ \E n \in 1..Len(Gnodes) : Gnodes[n] = a
    /\ {a} \in DOMAIN Gedges
    /\ Gedges[{a}] = weight
    /\ pc = "returned" =>
          /\ \E n \in 1..Len(net_nodes) : net_nodes[n].id = a
          /\ [ends |-> {a}, value |-> weight] \in net_edges

\* C11 (as amended): a retained row whose target_address equals its address is
\* not filtered out: the graph has that address as a node and a self-loop edge
\* on it, whose weight is that of the last retained self-loop row on that
\* address, and the rendered network has that edge with that weight
C11_SelfLoopKept ==
    GraphStarted =>
        \A i \in SelfLoopRows :
            SelfLoopKept(retained[i].address, EdgeWeight(retained[LastSelfLoopOn(i)]))

\* two self-loop rows on one address: one node, one edge, the second weight
C11_Witness ==
    /\ pc = "returned"
    /\ Len(retained) = 2
    /\ SelfLoopRows = {1, 2}
    /\ retained[1].address = retained[2].address
    /\ retained[1].total_usd_traded = Num(3 * Unit)
    /\ retained[2].total_usd_traded = Num(7 * Unit)
    /\ Gnodes = <<retained[1].address>>
    /\ net_edges = {[ends |-> {retained[1].address}, value |-> Num(7 * Unit)]}

\* C11 (as stated): the self-loop edge of every retained self-loop row carries
\* that row's own weight, in the graph and in the rendered network
C11_SelfLoopCarriesRowWeight ==
    GraphStarted =>
        \A i \in SelfLoopRows :
            SelfLoopKept(retained[i].address, EdgeWeight(retained[i]))

\* the four input checks, all passed
ChecksPass(i) ==
    /\ i.contract_address # ""
    /\ i.start_date < i.end_date
    /\ i.end_date <= Today
    /\ i.min_usd <= i.max_usd

\* the message of the first check, in the order above, that the inputs fail
FirstFailure(i) ==
    IF i.contract_address = "" THEN "error: enter a contract address"
    ELSE IF ~(i.start_date < i.end_date) THEN "error: start date must be before end date"
    ELSE IF ~(i.end_date <= Today) THEN "error: end date in the future"
    ELSE "error: minimum above maximum"

CheckMessages ==
    {"error: enter a contract address", "error: start date must be before end date",
     "error: end date in the future", "error: minimum above maximum"}

NothingRendered == net_nodes = <<>> /\ net_edges = {} /\ html_path = None

\* the action stopped at the input checks: the widgets' values are still held
\* and no query was built
StoppedAtChecks == pc = "done" /\ inputs # NoInputs /\ query = NoQuery

\* in every state: a query waits to be sent only for inputs that pass every
\* check, and an action stopped at the checks shows the first failing check's
\* message and nothing else, with no call made and nothing rendered
C12_StateOfChecks ==
    /\ pc = "query" =>
          /\ ChecksPass(inputs)
          /\ query.args = inputs /\ query.template \in {"solana", "evm"}
          /\ queryCalls = 0 /\ plotCalls = 0
          /\ \A k \in 1..Len(ui) : ui[k] \notin CheckMessages
    /\ (pc = "done" /\ queryCalls = 0) => StoppedAtChecks
    /\ StoppedAtChecks =>
          /\ ~ChecksPass(inputs)
          /\ ui = <<FirstFailure(inputs)>>
          /\ queryCalls = 0 /\ plotCalls = 0
          /\ NothingRendered
    /\ (queryCalls > 0 \/ plotCalls > 0) =>
          \A k \in 1..Len(ui) : ui[k] \notin CheckMessages

\* in every step: a query is built, flipside.query is called and
\* plot_trader_bubblemap is called only for inputs that pass every check
C12_CallsOnlyAfterChecks ==
    /\ (query' # query /\ query' # NoQuery) => ChecksPass(inputs') /\ query'.args = inputs'
    /\ queryCalls' > queryCalls => pc = "query" /\ ChecksPass(inputs)
    /\ plotCalls' > plotCalls => pc = "query" /\ ChecksPass(inputs) /\ queryCalls' = 1

\* C12: in one 'Run Analysis' action a query is built and sent, and the graph
\* plotted, only if the contract address is non-empty, start_date is before
\* end_date, end_date is not after today and min_usd is not above max_usd; if
\* a check fails, exactly the message of the first failing check is shown and
\* neither flipside.query nor plot_trader_bubblemap is called
C12_ChecksGateQuery == [](C12_StateOfChecks) /\ [][C12_CallsOnlyAfterChecks]_vars

\* a contract address with end_date = start_date, both after today: the second
\* and the third check fail, the second's message alone is shown
C12_Witness ==
    /\ StoppedAtChecks
    /\ inputs.contract_address # ""
    /\ inputs.start_date = inputs.end_date
    /\ inputs.end_date > Today
    /\ ui = <<"error: start date must be before end date">>
    /\ queryCalls = 0 /\ plotCalls = 0

====
